---- MODULE Spec2Model ----
(***************************************************************************)
(* md-grid: Grid<T>, an N-dimensional array over one contiguous buffer     *)
(* (src/src/lib.rs).  The model keeps the three fields of Grid, the one    *)
(* iterator view a caller can hold, and a record of the last call and its  *)
(* outcome.  usize is modelled as WordBits-bit unsigned arithmetic; an     *)
(* arithmetic overflow panics when the build has overflow checks (debug    *)
(* profile) and wraps when it has not (release profile).                   *)
(***************************************************************************)
EXTENDS Integers, Sequences, FiniteSets, TLC

\* ------------------------------------------------------------------ bounds
WordBits == 3
MaxAxes == 2
MaxWrites == 2
MaxNextCalls == 2

\* usize has Word values; the inputs are drawn from small sets that hold a
\* zero extent, extents whose product passes Word, and coordinates inside,
\* just outside and far outside an axis.
Word == 2 ^ WordBits
Values == {0, 1}
Preds == SUBSET Values
ExtentSet == {0, 1, 2, Word \div 2}
CoordSet == {0, 1, Word \div 2}
BigCoords == {0, Word \div 2}

SeqsUpTo(S, n) == UNION {[1..k -> S] : k \in 0..n}
ExtentLists == SeqsUpTo(ExtentSet, MaxAxes)

NoVal == -1
NoView == [kind |-> "none", pos |-> 0, calls |-> 0]
NoCall == [op |-> "none", target |-> <<>>, pred |-> {}, val |-> NoVal,
           res |-> "none", off |-> NoVal]

VARIABLES overflow_checks, pc, grid, axes, dimensions, view, writes, last
vars == <<overflow_checks, pc, grid, axes, dimensions, view, writes, last>>

\* Targets a caller passes to get / get_mut / set: every multi-index of the
\* right length over CoordSet, and shorter and longer ones.
Targets == [1..axes -> CoordSet]
             \cup UNION {[1..k -> BigCoords] : k \in (0..(axes + 1)) \ {axes}}

\* ------------------------------------------------------- usize arithmetic
usize_mul(a, b) == [ovf |-> a * b >= Word, val |-> (a * b) % Word]
usize_add(a, b) == [ovf |-> a + b >= Word, val |-> (a + b) % Word]

\* Iterator::product::<usize>() over s[from..]: a left fold from 1.
RECURSIVE product_fold(_, _, _)
product_fold(s, from, acc) ==
  IF from > Len(s) THEN acc
  ELSE LET m == usize_mul(acc.val, s[from])
       IN product_fold(s, from + 1, [ovf |-> acc.ovf \/ m.ovf, val |-> m.val])

product(s, skip) == product_fold(s, skip + 1, [ovf |-> FALSE, val |-> 1])

\* ------------------------------------------------------------ Grid::new
Grid_new(default_value, dims) ==
  LET size == product(dims, 0)
  IN IF size.ovf /\ overflow_checks
     THEN [res |-> "Panic", grid |-> <<>>, axes |-> 0, dimensions |-> <<>>]
     ELSE [res |-> "Ok",
           grid |-> [k \in 1..size.val |-> default_value],
           axes |-> Len(dims),
           dimensions |-> dims]

\* ------------------------------------------------- Grid::translate_index
\* The loop of lines 65-69; i is the 1-based position of the coordinate.
RECURSIVE translate_loop(_, _, _)
translate_loop(target, i, index) ==
  IF i > Len(target) THEN index
  ELSE LET w == product(dimensions, i)
           step == usize_mul(target[i], w.val)
           sum == usize_add(index.val, step.val)
       IN translate_loop(target, i + 1,
            [ovf |-> index.ovf \/ w.ovf \/ step.ovf \/ sum.ovf, val |-> sum.val])

\* translate_index with the arithmetic of lines 65-69 moved ahead of the
\* length check of lines 56-63.
translate_index_late_check(target) ==
  LET index == translate_loop(target, 1, [ovf |-> FALSE, val |-> 0])
  IN IF index.ovf /\ overflow_checks
     THEN [kind |-> "Panic", index |-> NoVal]
     ELSE IF Len(target) # axes
          THEN [kind |-> "DimensionMismatch", index |-> NoVal]
          ELSE IF index.val >= Len(grid)
               THEN [kind |-> "OutOfBounds", index |-> NoVal]
               ELSE [kind |-> "Ok", index |-> index.val]

translate_index(target) ==
  IF Len(target) # axes
  THEN [kind |-> "DimensionMismatch", index |-> NoVal]
  ELSE LET index == translate_loop(target, 1, [ovf |-> FALSE, val |-> 0])
       IN IF index.ovf /\ overflow_checks
          THEN [kind |-> "Panic", index |-> NoVal]
          ELSE IF index.val >= Len(grid)
               THEN [kind |-> "OutOfBounds", index |-> NoVal]
               ELSE [kind |-> "Ok", index |-> index.val]

\* ------------------------------------------------------------ false_index
\* Lines 84-87: the body is todo!(), which panics on every call.
false_index(index, dims) == [res |-> "Panic", value |-> <<>>]

\* ------------------------------------------------------------- actions
Init ==
  /\ overflow_checks \in BOOLEAN
  /\ pc = "start"
  /\ grid = <<>>
  /\ axes = 0
  /\ dimensions = <<>>
  /\ view = NoView
  /\ writes = 0
  /\ last = NoCall

new ==
  /\ pc = "start"
  /\ \E default_value \in Values, dims \in ExtentLists :
       LET g == Grid_new(default_value, dims)
       IN /\ pc' = IF g.res = "Ok" THEN "returned" ELSE "panicked"
          /\ grid' = g.grid
          /\ axes' = g.axes
          /\ dimensions' = g.dimensions
          /\ last' = [NoCall EXCEPT !.op = "new", !.target = dims,
                                    !.val = default_value, !.res = g.res]
  /\ UNCHANGED <<overflow_checks, view, writes>>

\* The call has returned its value; the caller goes on to its next call.
ret ==
  /\ pc = "returned"
  /\ pc' = "live"
  /\ last' = NoCall
  /\ UNCHANGED <<overflow_checks, grid, axes, dimensions, view, writes>>

\* self.grid[target] of lines 31, 37 and 43 is a checked slice index.
index_panics(index) == index >= Len(grid)

\* Grid::get: the translation, then the element at the offset.
Grid_get(target) ==
  LET t == translate_index(target)
      bad == t.kind = "Panic" \/ (t.kind = "Ok" /\ index_panics(t.index))
  IN [res |-> IF bad THEN "Panic" ELSE t.kind,
      off |-> IF bad THEN NoVal ELSE t.index,
      val |-> IF t.kind = "Ok" /\ ~bad THEN grid[t.index + 1] ELSE NoVal]

get ==
  /\ pc = "live"
  /\ view.kind = "none"
  /\ \E target \in Targets :
       LET g == Grid_get(target)
       IN /\ pc' = IF g.res = "Panic" THEN "panicked" ELSE "returned"
          /\ last' = [NoCall EXCEPT !.op = "get", !.target = target,
                                    !.val = g.val, !.res = g.res, !.off = g.off]
  /\ UNCHANGED <<overflow_checks, grid, axes, dimensions, view, writes>>

\* store writing one cell past the translated offset (wrapping at the end).
store_off_by_one(op, target, val) ==
  LET t == translate_index(target)
      ok == t.kind = "Ok"
  IN /\ pc' = IF t.kind = "Panic" THEN "panicked" ELSE "returned"
     /\ grid' = IF ok THEN [grid EXCEPT ![((t.index + 1) % Len(grid)) + 1] = val]
                      ELSE grid
     /\ writes' = IF grid' # grid THEN writes + 1 ELSE writes
     /\ writes' <= MaxWrites
     /\ last' = [NoCall EXCEPT !.op = op, !.target = target, !.val = val,
                               !.res = t.kind, !.off = t.index]
     /\ UNCHANGED <<overflow_checks, axes, dimensions, view>>

\* The write of val at the translated offset: set, and a store through the
\* reference get_mut returns.  writes counts the stores that changed a cell.
store(op, target, val) ==
  LET t == translate_index(target)
      bad == t.kind = "Panic" \/ (t.kind = "Ok" /\ index_panics(t.index))
      ok == t.kind = "Ok" /\ ~bad
  IN /\ pc' = IF bad THEN "panicked" ELSE "returned"
     /\ grid' = IF ok THEN [grid EXCEPT ![t.index + 1] = val] ELSE grid
     /\ writes' = IF grid' # grid THEN writes + 1 ELSE writes
     /\ writes' <= MaxWrites
     /\ last' = [NoCall EXCEPT !.op = op, !.target = target, !.val = val,
                               !.res = IF bad THEN "Panic" ELSE t.kind,
                               !.off = IF bad THEN NoVal ELSE t.index]
     /\ UNCHANGED <<overflow_checks, axes, dimensions, view>>

get_mut ==
  /\ pc = "live"
  /\ view.kind = "none"
  /\ \E target \in Targets, val \in Values : store("get_mut", target, val)

set ==
  /\ pc = "live"
  /\ view.kind = "none"
  /\ \E target \in Targets, val \in Values : store("set", target, val)

\* ------------------------------------------------------------- iteration
\* GridIter::new / GridIterMut::new: grid.grid.iter() starts at the front.
\* A new view that resumes where the view before it stopped.
GridIter_new_stale(kind) == [kind |-> kind, pos |-> view.pos, calls |-> 0]

GridIter_new(kind) == [kind |-> kind, pos |-> 0, calls |-> 0]

\* iter(&self) and iter_mut(&mut self); an earlier view ends when a new one
\* is taken.
iter ==
  /\ pc = "live"
  /\ view' = GridIter_new("iter")
  /\ pc' = "returned"
  /\ last' = [NoCall EXCEPT !.op = "iter", !.res = "Ok"]
  /\ UNCHANGED <<overflow_checks, grid, axes, dimensions, writes>>

iter_mut ==
  /\ pc = "live"
  /\ view' = GridIter_new("iter_mut")
  /\ pc' = "returned"
  /\ last' = [NoCall EXCEPT !.op = "iter_mut", !.res = "Ok"]
  /\ UNCHANGED <<overflow_checks, grid, axes, dimensions, writes>>

\* The view goes out of scope and its borrow of the grid ends.
drop ==
  /\ pc = "live"
  /\ view.kind # "none"
  /\ view' = NoView
  /\ UNCHANGED <<overflow_checks, pc, grid, axes, dimensions, writes, last>>

\* slice::Iter::next behind GridIter::next and GridIterMut::next.
slice_next(v) ==
  IF v.pos < Len(grid)
  THEN [res |-> "Some", off |-> v.pos, view |-> [v EXCEPT !.pos = v.pos + 1, !.calls = v.calls + 1]]
  ELSE [res |-> "None", off |-> NoVal, view |-> [v EXCEPT !.calls = v.calls + 1]]

GridIter_next ==
  /\ pc = "live"
  /\ view.kind = "iter"
  /\ view.calls < Len(grid) + MaxNextCalls
  /\ LET n == slice_next(view)
     IN /\ view' = n.view
        /\ last' = [NoCall EXCEPT !.op = "next", !.res = n.res, !.off = n.off,
                      !.val = IF n.res = "Some" THEN grid[n.off + 1] ELSE NoVal]
  /\ pc' = "returned"
  /\ UNCHANGED <<overflow_checks, grid, axes, dimensions, writes>>

\* GridIterMut::next, and the caller's store through the reference it yields.
GridIterMut_next ==
  /\ pc = "live"
  /\ view.kind = "iter_mut"
  /\ view.calls < Len(grid) + MaxNextCalls
  /\ LET n == slice_next(view)
     IN /\ view' = n.view
        /\ IF n.res = "Some"
           THEN /\ \E val \in Values :
                     /\ grid' = [grid EXCEPT ![n.off + 1] = val]
                     /\ last' = [NoCall EXCEPT !.op = "next_mut", !.res = "Some",
                                               !.off = n.off, !.val = val]
                /\ writes' = IF grid' # grid THEN writes + 1 ELSE writes
                /\ writes' <= MaxWrites
           ELSE /\ last' = [NoCall EXCEPT !.op = "next_mut", !.res = "None"]
                /\ UNCHANGED <<grid, writes>>
  /\ pc' = "returned"
  /\ UNCHANGED <<overflow_checks, axes, dimensions>>

\* Iterator::position on the view: the count, from the view's current front,
\* of the first remaining element the predicate accepts.
first_match(v, pred) ==
  LET hits == {k \in (v.pos + 1)..Len(grid) : grid[k] \in pred}
  IN IF hits = {} THEN NoVal
     ELSE (CHOOSE k \in hits : \A j \in hits : k <= j) - (v.pos + 1)

\* GridIter::position, lines 119-129.
position ==
  /\ pc = "live"
  /\ view.kind = "iter"
  /\ view.calls <= Len(grid)
  /\ \E pred \in Preds :
       LET index == first_match(view, pred)
       IN IF index # NoVal
          THEN LET r == false_index(index, dimensions)
               IN /\ view' = [view EXCEPT !.pos = view.pos + index + 1,
                                          !.calls = view.calls + index + 1]
                  /\ pc' = IF r.res = "Panic" THEN "panicked" ELSE "returned"
                  /\ last' = [NoCall EXCEPT !.op = "position", !.pred = pred,
                                !.off = index,
                                !.res = IF r.res = "Panic" THEN "Panic" ELSE "Some",
                                !.target = r.value]
          ELSE /\ view' = [view EXCEPT !.pos = Len(grid),
                                       !.calls = view.calls + (Len(grid) - view.pos) + 1]
               /\ pc' = "returned"
               /\ last' = [NoCall EXCEPT !.op = "position", !.pred = pred, !.res = "None"]
  /\ UNCHANGED <<overflow_checks, grid, axes, dimensions, writes>>

\* GridIter::enumerate, lines 131-139: consumes the view and calls
\* false_index for every remaining element, the first one first.
enumerate ==
  /\ pc = "live"
  /\ view.kind = "iter"
  /\ IF view.pos < Len(grid)
     THEN LET r == false_index(0, dimensions)
          IN /\ pc' = IF r.res = "Panic" THEN "panicked" ELSE "returned"
             /\ last' = [NoCall EXCEPT !.op = "enumerate", !.off = 0,
                           !.res = IF r.res = "Panic" THEN "Panic" ELSE "Ok",
                           !.target = r.value]
     ELSE /\ pc' = "returned"
          /\ last' = [NoCall EXCEPT !.op = "enumerate", !.res = "Ok"]
  /\ view' = NoView
  /\ UNCHANGED <<overflow_checks, grid, axes, dimensions, writes>>

Next ==
  \/ new
  \/ ret
  \/ get
  \/ get_mut
  \/ set
  \/ iter
  \/ iter_mut
  \/ drop
  \/ GridIter_next
  \/ GridIterMut_next
  \/ position
  \/ enumerate

Spec == Init /\ [][Next]_vars

\* ------------------------------------------------------ exact arithmetic
\* The contract's quantities over the unbounded integers.
RECURSIVE MathProduct(_, _)
MathProduct(s, from) ==
  IF from > Len(s) THEN 1 ELSE s[from] * MathProduct(s, from + 1)

MathWeight(i) == MathProduct(dimensions, i + 1)

RECURSIVE MathSum(_, _)
MathSum(target, i) ==
  IF i > Len(target) THEN 0
  ELSE target[i] * MathWeight(i) + MathSum(target, i + 1)

MathOffset(target) == MathSum(target, 1)

InBounds(target) ==
  /\ Len(target) = Len(dimensions)
  /\ \A i \in 1..Len(target) : target[i] < dimensions[i]

AccessOps == {"get", "get_mut", "set"}
WriteOps == {"get_mut", "set", "next_mut"}

\* ----------------------------------------------------------------- claims

\* C1: for an in-bounds multi-index (right length, every coordinate below
\* its extent) get, get_mut and set succeed at the row-major offset
\* sum idx[i] * product(E[j], j > i), and set writes that buffer position.
C1_RowMajorOffset ==
  (last.op \in AccessOps /\ InBounds(last.target)) =>
     /\ last.res = "Ok"
     /\ last.off = MathOffset(last.target)
     /\ last.op = "set" => grid[MathOffset(last.target) + 1] = last.val

\* C2: new(v, E) returns a grid with axis_count = len(E), extents = E,
\* buffer.length = product(E) and every cell v, for every E; and
\* buffer.length = product(extents), axis_count = len(extents) hold in every
\* state of the grid afterwards.
C2_NewInvariant ==
  /\ last.op = "new" =>
       /\ last.res = "Ok"
       /\ axes = Len(last.target)
       /\ dimensions = last.target
       /\ Len(grid) = MathProduct(last.target, 1)
       /\ \A k \in 1..Len(grid) : grid[k] = last.val
  /\ pc \in {"live", "returned"} =>
       /\ Len(grid) = MathProduct(dimensions, 1)
       /\ axes = Len(dimensions)

\* C3: a target of the right length with some coordinate at or above the
\* extent of its axis is rejected with OutOfBounds by get, get_mut and set.
\* Stated for the targets whose weighted sum fits the machine word, so that
\* the arithmetic overflow of C6 plays no part in a violation.
C3_PerAxisRejected ==
  (/\ last.op \in AccessOps
   /\ Len(last.target) = axes
   /\ MathOffset(last.target) < Word
   /\ \E i \in 1..Len(last.target) : last.target[i] >= dimensions[i])
     => last.res = "OutOfBounds"

\* C4: a target whose length differs from axis_count makes get, get_mut and
\* set fail with DimensionMismatch, whatever its coordinates (no overflow
\* panic comes first), and leaves buffer, extents and axis count unchanged.
C4_DimensionMismatch ==
  [][(last'.op \in AccessOps /\ Len(last'.target) # axes) =>
        /\ last'.res = "DimensionMismatch"
        /\ pc' = "returned"
        /\ grid' = grid
        /\ dimensions' = dimensions
        /\ axes' = axes]_vars

C4_Witness ==
  /\ last.op = "set"
  /\ axes = 2
  /\ Len(grid) > 0
  /\ Len(last.target) = 3
  /\ last.target[1] = Word \div 2
  /\ last.res = "DimensionMismatch"

\* C5: a target of the right length fails with OutOfBounds exactly when its
\* row-major weighted sum is >= buffer.length, and succeeds when it is below.
C5_OutOfBounds ==
  (last.op \in AccessOps /\ Len(last.target) = axes) =>
     /\ MathOffset(last.target) >= Len(grid) => last.res = "OutOfBounds"
     /\ MathOffset(last.target) < Len(grid) => last.res = "Ok"

\* C6: get, get_mut and set never panic, and an overflowing weighted sum is
\* never accepted at a wrapped offset.
C6_NoPanicNoWrap ==
  last.op \in AccessOps =>
     /\ last.res # "Panic"
     /\ last.res = "Ok" => last.off = MathOffset(last.target)

\* C7: when translate_index accepts idx, set(idx, v) succeeds, a get(idx)
\* right after it returns v, the set changed the cell at idx's offset and
\* nothing else (other cells, extents, axis count, buffer length); a cell
\* changes only by a write to it, and a new grid holds the default everywhere.
C7_SetThenGet ==
  /\ [](last.op = "new" /\ last.res = "Ok" =>
          \A k \in 1..Len(grid) : grid[k] = last.val)
  /\ [](last.op = "set" /\ last.res = "Ok" =>
          /\ Grid_get(last.target).res = "Ok"
          /\ Grid_get(last.target).val = last.val
          /\ Grid_get(last.target).off = last.off)
  /\ [][last'.op = "set" =>
          LET t == translate_index(last'.target)
          IN t.kind = "Ok" =>
               /\ last'.res = "Ok"
               /\ last'.off = t.index
               /\ grid' = [grid EXCEPT ![t.index + 1] = last'.val]
               /\ Len(grid') = Len(grid)
               /\ dimensions' = dimensions
               /\ axes' = axes]_vars
  /\ [][pc # "start" =>
          /\ Len(grid') = Len(grid)
          /\ \A k \in 1..Len(grid) :
               grid'[k] # grid[k] =>
                 /\ last'.op \in WriteOps
                 /\ last'.off = k - 1
                 /\ grid'[k] = last'.val]_vars

C7_Witness ==
  /\ last.op = "set"
  /\ last.res = "Ok"
  /\ axes = 2
  /\ last.off > 0
  /\ grid[last.off + 1] = 1
  /\ grid[1] = 0
  /\ writes = 2

\* C8: the reverse mapping applied to the offset of an in-bounds multi-index
\* returns a value, and that value is the multi-index.
C8_RoundTrip ==
  (last.op \in {"position", "enumerate"} /\ last.off # NoVal) =>
     /\ last.res # "Panic"
     /\ \A idx \in [1..axes -> CoordSet] :
          (InBounds(idx) /\ translate_index(idx).kind = "Ok"
             /\ translate_index(idx).index = last.off) => last.target = idx

\* C9: a view from iter() or iter_mut() starts at buffer position 0 whatever
\* came before; its k-th next yields position k-1 for k <= n and absence
\* after that; iter() and next on a read-only view change nothing, and a
\* write through the k-th reference of iter_mut() changes position k-1 only.
C9_Iteration ==
  /\ [](last.op \in {"iter", "iter_mut"} => view.pos = 0 /\ view.calls = 0)
  /\ [][last'.op \in {"iter", "iter_mut"} =>
          grid' = grid /\ dimensions' = dimensions /\ axes' = axes]_vars
  /\ [][last'.op \in {"next", "next_mut"} =>
          LET k == view'.calls
          IN /\ k = view.calls + 1
             /\ view'.kind = view.kind
             /\ dimensions' = dimensions /\ axes' = axes
             /\ IF k <= Len(grid)
                THEN /\ last'.res = "Some"
                     /\ last'.off = k - 1
                     /\ last'.op = "next" =>
                          grid' = grid /\ last'.val = grid[k]
                     /\ last'.op = "next_mut" =>
                          grid' = [grid EXCEPT ![k] = last'.val]
                ELSE /\ last'.res = "None"
                     /\ grid' = grid]_vars

C9_Witness ==
  /\ last.op = "next_mut"
  /\ last.res = "None"
  /\ Len(grid) = 2
  /\ view.calls = 3
  /\ writes = 2

\* C10: position on a fresh read-only view returns a value: the multi-index
\* of the first element in row-major order that satisfies the predicate, or
\* absence when none does.
C10_Position ==
  (last.op = "position"
     /\ view.calls = (IF last.off # NoVal THEN last.off + 1 ELSE Len(grid) + 1)) =>
     LET hits == {k \in 1..Len(grid) : grid[k] \in last.pred}
     IN IF hits = {}
        THEN last.res = "None"
        ELSE /\ last.res = "Some"
             /\ \A k \in hits : last.off + 1 <= k
             /\ last.off + 1 \in hits
             /\ InBounds(last.target)
             /\ MathOffset(last.target) = last.off
====
